---- MODULE Spec2Model ----
(***************************************************************************)
(* PixelArtGenerator of src/filter.py: the block sampling and quantizing   *)
(* filter, its constructor, the sweep of generate, and single calls of     *)
(* get_pixel_color and set_pixel_color as the doctests make them.          *)
(*                                                                         *)
(* Numbers.  A sample of an array and the field `gradation` are float64 or *)
(* uint8 values.  Every one of them is a multiple of 1/Scale, and the      *)
(* model holds the number x as the integer x * Scale, so 42.5 and 85/6 are *)
(* exact.  Floor divisions (//) give plain integers.  With the arguments   *)
(* enumerated below, 255 / gradations (255.0, 42.5), every block sum and   *)
(* every product level * gradation are exact in float64, so each floor the *)
(* code takes is the floor of the exact quotient.  Only the last division  *)
(* by 3 rounds: where float64 holds the nearest double of 85/6 the model   *)
(* holds 85/6; the integer part that a uint8 array keeps is the same.      *)
(***************************************************************************)
EXTENDS Integers, Sequences, FiniteSets, TLC

VARIABLES
    pc,          \* "ready", "sample", "write", "returned", "called", "raised"
    gradations,  \* argument of __init__
    pixel_step,  \* argument of __init__
    step,        \* self.step
    gradation,   \* self.gradation, times Scale
    image,       \* the array handed in: generate's image, or a doctest's array
    img_array,   \* generate's local array / the array a single call works on
    h, w,        \* generate's locals
    i, j,        \* loop variables of generate / arguments of a single call
    color,       \* generate's local `color` / argument s / result of a call
    value,       \* the scalar of line 66 before it is stored, times Scale
    call,        \* which method was called last
    reapplied,   \* generate has been applied to its own output
    written,     \* history: how often the current sweep wrote each pixel
    visited,     \* history: the block origins of the current sweep, in order
    levels,      \* history: the quantization levels the current sweep used
    error        \* the exception that ended the call, or "none"

vars == <<pc, gradations, pixel_step, step, gradation, image, img_array, h, w,
          i, j, color, value, call, reapplied, written, visited, levels, error>>

----------------------------------------------------------------------------
(* Bounds of the model and constants of the program *)

MaxSide == 3
MaxCells == 9
MaxStep == 3

DefaultGradations == 6
MaxBrightness == 255
Channels == 3

\* gradations: 0 (no palette), 1 (one step of 255) and the default
GradationArgs == {0, 1, DefaultGradations}
\* pixel_step: negative, zero, and the block sizes up to MaxStep
StepArgs == -1 .. MaxStep
\* samples of a one-band image; a block's sum then takes the values between
Samples == {0, MaxBrightness}
\* bands of an 8-bit image: L, RGB, RGBA
Bands == {1, 3, 4}
\* brightness handed to a single call of set_pixel_color
BrightnessArgs == {0, 43, MaxBrightness}
\* fill of the float64 arrays of the doctests (np.ones, ...)
FloatFills == {1, MaxBrightness}

RECURSIVE Product(_)
Product(S) == IF S = {} THEN 1
              ELSE LET x == CHOOSE y \in S : TRUE IN x * Product(S \ {x})

\* every number of the model is a multiple of 1/Scale
Scale == Product(GradationArgs \ {0})

\* the number n as the model holds it
R(n) == n * Scale

\* x // y of two numbers held times Scale (y > 0): a plain integer
FloorDiv(x, y) == x \div y

----------------------------------------------------------------------------
(* numpy arrays: shape (rows, cols) or (rows, cols, bands), dtype, data *)

Pixels(a) == (0 .. a.rows - 1) \X (0 .. a.cols - 1)
Cells(a) == (0 .. a.rows - 1) \X (0 .. a.cols - 1) \X (0 .. a.bands - 1)

Array(rows, cols, bands, dtype, f) ==
    [rows |-> rows, cols |-> cols, bands |-> bands, dtype |-> dtype,
     data |-> [p \in (0 .. rows - 1) \X (0 .. cols - 1) \X (0 .. bands - 1)
                 |-> R(f[<<p[1], p[2]>>])]]

\* rows and columns of the arrays: at most MaxSide each, MaxCells pixels
Shapes == { s \in (1 .. MaxSide) \X (1 .. MaxSide) : s[1] * s[2] <= MaxCells }

\* arrays filled with one number: 8-bit ones of 1, 3 or 4 bands, and the
\* float64 arrays of the doctests
UniformArrays ==
    { Array(s[1], s[2], b, "uint8", [p \in (0 .. s[1] - 1) \X (0 .. s[2] - 1) |-> v]) :
        s \in Shapes, b \in Bands, v \in Samples }
    \cup
    { Array(s[1], s[2], 1, "float64", [p \in (0 .. s[1] - 1) \X (0 .. s[2] - 1) |-> v]) :
        s \in Shapes, v \in FloatFills }

\* the arrays of the model: one-band 8-bit images of any content, and the
\* uniform arrays
Images ==
    UNION { { Array(s[1], s[2], 1, "uint8", f) :
                f \in [(0 .. s[1] - 1) \X (0 .. s[2] - 1) -> Samples] } : s \in Shapes }
    \cup UniformArrays

\* a[lo:hi] on an axis of length n, for 0 <= lo <= hi: clipped, never an error
Slice(lo, hi, n) == { k \in 0 .. n - 1 : lo <= k /\ k < hi }

\* the cells of img_array[i: i + step, j: j + step]
Segment(a, i0, j0, st) ==
    Slice(i0, i0 + st, a.rows) \X Slice(j0, j0 + st, a.cols) \X (0 .. a.bands - 1)

RECURSIVE np_sum(_, _)
np_sum(a, S) == IF S = {} THEN 0
                ELSE LET p == CHOOSE q \in S : TRUE
                     IN a.data[p] + np_sum(a, S \ {p})

\* mutant of RangeRaises: a zero step is taken for an empty range
RangeNeverRaises(st) == FALSE

\* range(0, stop, st) raises ValueError for st = 0
RangeRaises(st) == st = 0

\* range(0, stop, st) for st # 0: empty for a negative st
Range(stop, st) == IF st > 0 THEN { k \in 0 .. stop - 1 : k % st = 0 } ELSE {}

----------------------------------------------------------------------------
(* The methods *)

\* mutant of get_pixel_color: the mean over the pixels the slice really holds
get_pixel_color_area(a, i0, j0, st) ==
    FloorDiv(np_sum(a, Segment(a, i0, j0, st)),
             R(Cardinality(Slice(i0, i0 + st, a.rows))
               * Cardinality(Slice(j0, j0 + st, a.cols))))

\* mutant of get_pixel_color: the division by step ** 2 is left out
get_pixel_color_sum(a, i0, j0, st) ==
    FloorDiv(np_sum(a, Segment(a, i0, j0, st)), R(1))

\* line 33: np.sum(img_array[i: i + step, j: j + step]) // (step ** 2)
get_pixel_color(a, i0, j0, st) ==
    FloorDiv(np_sum(a, Segment(a, i0, j0, st)), R(st * st))

\* line 66: int(s // self.gradation)
Level(s, g) == FloorDiv(R(s), g)

\* mutant of NewValue: the division by 3 is left out
NewValue_undivided(s, g) == Level(s, g) * g

\* line 66: int(s // self.gradation) * self.gradation / 3
NewValue(s, g) == (Level(s, g) * g) \div Channels

\* what storing the float64 x in an array of dtype leaves in a cell: the
\* number itself, or for uint8 its integer part; the cast of a number
\* beyond 255 to uint8 is undefined in C: it wraps or it saturates
Stored(dtype, x) ==
    IF dtype = "float64" THEN {x}
    ELSE LET n == x \div Scale
         IN IF n <= MaxBrightness THEN {R(n)}
            ELSE {R(n % (MaxBrightness + 1)), R(MaxBrightness)}

\* mutant of set_pixel_color: the slices end one too far, blocks overlap
set_pixel_color_wide(a, i0, j0, st, v) ==
    [a EXCEPT !.data = [p \in DOMAIN a.data |->
                          IF p \in Segment(a, i0, j0, st + 1) THEN v ELSE a.data[p]]]

\* mutant of set_pixel_color: the column slice is left out, whole rows are written
set_pixel_color_rows(a, i0, j0, st, v) ==
    [a EXCEPT !.data = [p \in DOMAIN a.data |->
                          IF p[1] \in Slice(i0, i0 + st, a.rows) THEN v ELSE a.data[p]]]

\* mutant of set_pixel_color: only the pixel at the origin is written
set_pixel_color_origin(a, i0, j0, st, v) ==
    [a EXCEPT !.data = [p \in DOMAIN a.data |->
                          IF p[1] = i0 /\ p[2] = j0 THEN v ELSE a.data[p]]]

\* line 66: img_array[i: i + step, j: j + step] = v, and line 67
set_pixel_color(a, i0, j0, st, v) ==
    [a EXCEPT !.data = [p \in DOMAIN a.data |->
                          IF p \in Segment(a, i0, j0, st) THEN v ELSE a.data[p]]]

----------------------------------------------------------------------------
(* Init: the generator as __init__ leaves it, and the array it will get *)

Init ==
    /\ gradations \in GradationArgs
    /\ pixel_step \in StepArgs
    /\ image \in Images
    /\ img_array = image
    /\ step = pixel_step
    /\ IF gradations = 0
       THEN /\ gradation = 0
            /\ pc = "raised"
            /\ error = "ZeroDivisionError"
       ELSE /\ gradation = R(MaxBrightness) \div gradations
            /\ pc = "ready"
            /\ error = "none"
    /\ h = 0 /\ w = 0 /\ i = 0 /\ j = 0 /\ color = 0 /\ value = 0
    /\ call = "none"
    /\ reapplied = FALSE
    /\ written = [p \in Pixels(image) |-> 0]
    /\ visited = <<>>
    /\ levels = {}

\* lines 75-78 up to the first block: generate(image) on an 8-bit image
\* (np.array of an L, RGB or RGBA image is a uint8 array)
Generate ==
    /\ pc = "ready"
    /\ image.dtype = "uint8"
    /\ call' = "generate"
    /\ img_array' = image
    /\ written' = [p \in Pixels(image) |-> 0]
    /\ visited' = <<>>
    /\ levels' = {}
    /\ i' = 0 /\ j' = 0 /\ color' = 0 /\ value' = 0
    /\ IF image.rows < 2
       THEN \* line 76: img_array[1] of a one-row array
            /\ pc' = "raised" /\ error' = "IndexError"
            /\ UNCHANGED <<h, w>>
       ELSE /\ h' = image.rows /\ w' = image.cols
            /\ IF RangeRaises(step)
               THEN \* line 77: range() arg 3 must not be zero
                    pc' = "raised" /\ error' = "ValueError"
               ELSE /\ error' = error
                    /\ pc' = IF Range(image.rows, step) = {} \/ Range(image.cols, step) = {}
                             THEN "returned" ELSE "sample"
    /\ UNCHANGED <<gradations, pixel_step, step, gradation, image, reapplied>>

\* line 79
Sample ==
    /\ pc = "sample"
    /\ color' = get_pixel_color(img_array, i, j, step)
    /\ visited' = Append(visited, <<i, j>>)
    /\ pc' = "write"
    /\ UNCHANGED <<gradations, pixel_step, step, gradation, image, img_array, h, w,
                   i, j, value, call, reapplied, written, levels, error>>

\* line 80, and the step of the two loops to the next block or to line 81
Write ==
    /\ pc = "write"
    /\ value' = NewValue(color, gradation)
    /\ \E v \in Stored(img_array.dtype, NewValue(color, gradation)) :
          img_array' = set_pixel_color(img_array, i, j, step, v)
    /\ levels' = levels \cup {Level(color, gradation)}
    /\ written' = [p \in DOMAIN written |->
                     IF <<p[1], p[2], 0>> \in Segment(img_array, i, j, step)
                     THEN written[p] + 1 ELSE written[p]]
    /\ IF j + step < w
       THEN /\ j' = j + step /\ i' = i /\ pc' = "sample"
       ELSE IF i + step < h
            THEN /\ i' = i + step /\ j' = 0 /\ pc' = "sample"
            ELSE /\ pc' = "returned" /\ UNCHANGED <<i, j>>
    /\ UNCHANGED <<gradations, pixel_step, step, gradation, image, h, w, color,
                   call, reapplied, visited, error>>

\* generate(generate(image)): the returned image is handed to generate again
Reapply ==
    /\ pc = "returned"
    /\ ~reapplied
    /\ reapplied' = TRUE
    /\ image' = img_array
    /\ pc' = "ready"
    /\ UNCHANGED <<gradations, pixel_step, step, gradation, img_array, h, w, i, j,
                   color, value, call, written, visited, levels, error>>

\* a single call t.get_pixel_color(img_array, i0, j0), as in the doctests:
\* on a fresh generator with a block size of 1 or more and a uniform array
CallGet(i0, j0) ==
    /\ pc = "ready" /\ call = "none" /\ step >= 1
    /\ img_array \in UniformArrays
    /\ i' = i0 /\ j' = j0
    /\ color' = get_pixel_color(img_array, i0, j0, step)
    /\ call' = "get_pixel_color"
    /\ pc' = "called"
    /\ UNCHANGED <<gradations, pixel_step, step, gradation, image, img_array, h, w,
                   value, reapplied, written, visited, levels, error>>

\* a single call t.set_pixel_color(img_array, i0, j0, s), as in the doctests:
\* on a fresh generator with a block size of 1 or more and a uniform array
CallSet(i0, j0, s) ==
    /\ pc = "ready" /\ call = "none" /\ step >= 1
    /\ img_array \in UniformArrays
    /\ i' = i0 /\ j' = j0 /\ color' = s
    /\ value' = NewValue(s, gradation)
    /\ \E v \in Stored(img_array.dtype, NewValue(s, gradation)) :
          img_array' = set_pixel_color(img_array, i0, j0, step, v)
    /\ call' = "set_pixel_color"
    /\ pc' = "called"
    /\ UNCHANGED <<gradations, pixel_step, step, gradation, image, h, w,
                   reapplied, written, visited, levels, error>>

Next ==
    \/ Generate
    \/ Sample
    \/ Write
    \/ Reapply
    \/ \E i0 \in 0 .. img_array.rows - 1, j0 \in 0 .. img_array.cols - 1 : CallGet(i0, j0)
    \/ \E i0 \in 0 .. img_array.rows - 1, j0 \in 0 .. img_array.cols - 1,
          s \in BrightnessArgs : CallSet(i0, j0, s)

Spec == Init /\ [][Next]_vars

----------------------------------------------------------------------------
(* What the claims speak of, stated without the operators of the model *)

Min(x, y) == IF x < y THEN x ELSE y

RECURSIVE SumFn(_, _, _)
SumFn(f, lo, hi) == IF lo > hi THEN 0 ELSE f[lo] + SumFn(f, lo + 1, hi)

\* the sum of every band of the pixels in rows r0..r1 and columns c0..c1
BlockSum(a, r0, r1, c0, c1) ==
    SumFn([r \in r0 .. r1 |->
             SumFn([c \in c0 .. c1 |->
                      SumFn([b \in 0 .. a.bands - 1 |-> a.data[<<r, c, b>>]],
                            0, a.bands - 1)],
                   c0, c1)],
          r0, r1)

\* q = floor(num / den) for den > 0
FloorIs(q, num, den) == q * den <= num /\ num < (q + 1) * den

\* the pixel (r, c) lies in the clipped block of origin (i0, j0)
InBlock(a, r, c, i0, j0) ==
    /\ i0 <= r /\ r < Min(i0 + step, a.rows)
    /\ j0 <= c /\ c < Min(j0 + step, a.cols)

\* floor(b / gradation_unit) with gradation_unit = 255 / gradations
QLevel(b) == (b * gradations) \div MaxBrightness

\* floor(b / gradation_unit) * gradation_unit / 3, times Scale
QValue(b) == (QLevel(b) * R(MaxBrightness)) \div (Channels * gradations)

\* the origins 0, step, 2*step, ... below n
Origins(n) == { k \in 0 .. n - 1 : k % step = 0 }

VisitedSet == { visited[k] : k \in DOMAIN visited }

\* a step in which get_pixel_color ran, in the sweep or as a single call
GetActs ==
    \/ pc = "sample" /\ pc' = "write"
    \/ pc = "ready" /\ pc' = "called" /\ call' = "get_pixel_color"

\* a step in which set_pixel_color ran in the sweep / as a single call
SweepSetActs == pc = "write" /\ pc' \in {"sample", "returned"}
CallSetActs == pc = "ready" /\ pc' = "called" /\ call' = "set_pixel_color"

----------------------------------------------------------------------------
(* C1: for every grid of height h >= 1 and width w >= 1 and every          *)
(* step >= 1, one call of generate visits exactly the origins (i, j) with  *)
(* i in {0, step, ... < h} and j in {0, step, ... < w}, and when it is     *)
(* done every pixel lies in the clipped block of exactly one visited       *)
(* origin and has been written exactly once; the call does not fail.       *)
C1_EveryPixelInOneBlock ==
    (call = "generate" /\ pixel_step >= 1) =>
        /\ pc # "raised"
        /\ pc = "returned" =>
              /\ VisitedSet = Origins(img_array.rows) \X Origins(img_array.cols)
              /\ \A p \in Pixels(img_array) :
                    /\ Cardinality({ o \in VisitedSet :
                                       InBlock(img_array, p[1], p[2], o[1], o[2]) }) = 1
                    /\ written[p] = 1

\* the part of C1 that the code keeps: the same, for grids of two rows or more
C1_FromTwoRows ==
    (call = "generate" /\ pixel_step >= 1 /\ image.rows >= 2) =>
        /\ pc # "raised"
        /\ pc = "returned" =>
              /\ VisitedSet = Origins(img_array.rows) \X Origins(img_array.cols)
              /\ \A p \in Pixels(img_array) :
                    /\ Cardinality({ o \in VisitedSet :
                                       InBlock(img_array, p[1], p[2], o[1], o[2]) }) = 1
                    /\ written[p] = 1

C3_BlockBecomesExactValue ==
    [][/\ SweepSetActs =>
             \A p \in Cells(img_array) :
                img_array'.data[p] = IF InBlock(img_array, p[1], p[2], i, j)
                                     THEN QValue(color) ELSE img_array.data[p]
       /\ CallSetActs =>
             \A p \in Cells(img_array) :
                img_array'.data[p] = IF InBlock(img_array, p[1], p[2], i', j')
                                     THEN QValue(color') ELSE img_array.data[p]]_vars

\* what a cell of the array holds after the number x was assigned to it,
\* for x up to 255: x in a float64 array, the integer part of x in a uint8 one
Held(a, x, y) ==
    IF a.dtype = "float64" THEN y = x
    ELSE /\ y % Scale = 0
         /\ y <= x /\ x < y + Scale

(* C3, amended: every cell of the clipped block becomes that value as the  *)
(* array's element type holds it (the value itself in a float64 array, its *)
(* integer part in a uint8 array, for a value of at most 255), all cells   *)
(* of the block become the same, and every other cell keeps its value.     *)
C3_BlockBecomesStoredValue ==
    [][/\ SweepSetActs =>
             \A p \in Cells(img_array) :
                IF InBlock(img_array, p[1], p[2], i, j)
                THEN /\ QValue(color) <= R(MaxBrightness) =>
                            Held(img_array, QValue(color), img_array'.data[p])
                     /\ img_array'.data[p] = img_array'.data[<<i, j, 0>>]
                ELSE img_array'.data[p] = img_array.data[p]
       /\ CallSetActs =>
             \A p \in Cells(img_array) :
                IF InBlock(img_array, p[1], p[2], i', j')
                THEN /\ QValue(color') <= R(MaxBrightness) =>
                            Held(img_array, QValue(color'), img_array'.data[p])
                     /\ img_array'.data[p] = img_array'.data[<<i', j', 0>>]
                ELSE img_array'.data[p] = img_array.data[p]
       /\ (SweepSetActs \/ CallSetActs) =>
             /\ img_array'.rows = img_array.rows /\ img_array'.cols = img_array.cols
             /\ img_array'.bands = img_array.bands /\ img_array'.dtype = img_array.dtype]_vars

\* C3's case: a single call wrote a clipped block of a uint8 array with a
\* value that is no integer, and cells outside the block kept another value
C3_Witness ==
    /\ pc = "called" /\ call = "set_pixel_color"
    /\ img_array.dtype = "uint8"
    /\ i + step > img_array.rows
    /\ value % Scale # 0
    /\ img_array.data[<<i, j, 0>>] = R(value \div Scale)
    /\ \E p \in Cells(img_array) :
          /\ ~InBlock(img_array, p[1], p[2], i, j)
          /\ img_array.data[p] = image.data[p]
          /\ img_array.data[p] # img_array.data[<<i, j, 0>>]

(* C4: after generate finishes with step >= 1 and gradations >= 1, all     *)
(* cells of one block of the stride-step partition, the clipped blocks at  *)
(* the bottom and right edge included, hold one identical value.           *)
C4_BlocksUniform ==
    (pc = "returned" /\ step >= 1) =>
        \A p \in Cells(img_array) :
            img_array.data[p] =
                img_array.data[<<(p[1] \div step) * step, (p[2] \div step) * step, 0>>]

\* C4's case: a sweep of several blocks, one of them clipped, over an image
\* that was not uniform inside its first block, has finished
C4_Witness ==
    /\ pc = "returned" /\ step = 2
    /\ img_array.rows = 3 /\ img_array.cols = 3
    /\ image.data[<<0, 0, 0>>] # image.data[<<1, 1, 0>>]
    /\ img_array.data[<<0, 0, 0>>] # img_array.data[<<2, 2, 0>>]
    /\ ~reapplied

(* C5, as stated: applying generate to the output of generate changes no   *)
(* cell.                                                                   *)
C5_SecondPassChangesNothing ==
    (reapplied /\ pc = "returned") => img_array.data = image.data

(* C5, amended: for an image of at most three bands, applying generate to  *)
(* the output of generate leaves no cell above the value the first pass    *)
(* gave it (so a cell that is 0 stays 0); it may lower it.                 *)
C5_SecondPassNeverRaises ==
    (reapplied /\ pc = "returned" /\ img_array.bands <= Channels) =>
        \A p \in Cells(img_array) :
            /\ img_array.data[p] <= image.data[p]
            /\ image.data[p] = 0 => img_array.data[p] = 0

\* C5's case: the second pass has finished and has lowered a cell
C5_Witness ==
    /\ reapplied /\ pc = "returned" /\ step >= 1
    /\ img_array.bands <= Channels
    /\ \E p \in Cells(img_array) :
          /\ img_array.data[p] < image.data[p]
          /\ img_array.data[p] > 0

(* C6: the interleaved sweep gives what a two-pass design gives: every     *)
(* brightness the sweep samples is the brightness of that block in the     *)
(* unmodified image, and the final grid holds, in every block, the value   *)
(* quantized from the block's brightness in the unmodified image.          *)
C6_SweepIsTwoPass ==
    /\ pc = "write" =>
          FloorIs(color,
                  BlockSum(image, i, Min(i + step, image.rows) - 1,
                           j, Min(j + step, image.cols) - 1),
                  R(step * step))
    /\ (pc = "returned" /\ step >= 1) =>
          \A bi \in Origins(image.rows), bj \in Origins(image.cols) :
             LET b == BlockSum(image, bi, Min(bi + step, image.rows) - 1,
                               bj, Min(bj + step, image.cols) - 1)
                        \div R(step * step)
             IN  QValue(b) <= R(MaxBrightness) =>
                    \A p \in Cells(img_array) :
                       InBlock(img_array, p[1], p[2], bi, bj) =>
                          Held(img_array, QValue(b), img_array.data[p])

\* C6's case: a sweep of several blocks has finished, and a later block
\* differs from the first in the image and in the result
C6_Witness ==
    /\ pc = "returned" /\ step >= 1
    /\ Len(visited) >= 4
    /\ img_array.data # image.data
    /\ \E p \in Cells(img_array) :
          /\ image.data[p] # image.data[<<0, 0, 0>>]
          /\ img_array.data[p] # img_array.data[<<0, 0, 0>>]

(* C7, as stated: with gradations = 0, with step = 0 or with a negative    *)
(* step, constructing the generator and running generate never completes   *)
(* normally and returns a grid.                                            *)
C7_DegenerateNeverReturns ==
    (gradations = 0 \/ pixel_step <= 0) => pc # "returned"

(* C7, amended: with gradations = 0 the constructor fails with a division  *)
(* by zero, and with step = 0 generate fails in range(): neither returns a *)
(* grid.  With a negative step and gradations # 0, generate on a grid of   *)
(* two rows or more visits no block, completes normally and returns the    *)
(* grid as it got it.                                                      *)
C7_ZeroFailsNegativeReturnsUnchanged ==
    /\ gradations = 0 => (pc = "raised" /\ error = "ZeroDivisionError")
    /\ (gradations # 0 /\ pixel_step = 0) =>
          /\ pc \in {"ready", "raised"}
          /\ call = "generate" => (pc = "raised" /\ error \in {"ValueError", "IndexError"})
          /\ (call = "generate" /\ image.rows >= 2) => error = "ValueError"
    /\ (gradations # 0 /\ pixel_step < 0 /\ call = "generate" /\ image.rows >= 2) =>
          /\ pc \in {"returned", "ready"}
          /\ img_array = image
          /\ visited = <<>>

\* C7's case: generate with a negative step has returned
C7_Witness ==
    /\ pixel_step < 0 /\ gradations # 0
    /\ pc = "returned"
    /\ \E p, q \in Cells(img_array) : img_array.data[p] # img_array.data[q]

\* C7's other case: generate with step = 0 has failed in range()
C7_WitnessZeroStep ==
    pixel_step = 0 /\ pc = "raised" /\ error = "ValueError"

(* C8, as stated: for a one-band grid with samples in 0..255 every level   *)
(* floor(brightness / gradation_unit) that generate uses lies in           *)
(* 0..gradations-1, and the output holds at most `gradations` distinct     *)
(* values.                                                                 *)
C8_LevelsBelowGradations ==
    (call = "generate" /\ img_array.bands = 1) =>
        /\ levels \subseteq 0 .. gradations - 1
        /\ (pc = "returned" /\ step >= 1) =>
              Cardinality({ img_array.data[p] : p \in Cells(img_array) }) <= gradations

(* C8, amended: every such level lies in 0..gradations (a brightness of    *)
(* 255 gives the level `gradations`), and the output holds at most         *)
(* gradations + 1 distinct values.                                         *)
C8_LevelsUpToGradations ==
    (call = "generate" /\ img_array.bands = 1) =>
        /\ levels \subseteq 0 .. gradations
        /\ (pc = "returned" /\ step >= 1) =>
              Cardinality({ img_array.data[p] : p \in Cells(img_array) }) <= gradations + 1

\* C8's case: a one-band sweep has used the level `gradations` and left
\* gradations + 1 distinct values
C8_Witness ==
    /\ call = "generate" /\ img_array.bands = 1
    /\ pc = "returned" /\ step >= 1
    /\ gradations \in levels
    /\ Cardinality({ img_array.data[p] : p \in Cells(img_array) }) = gradations + 1

(* C9: get_pixel_color on a block whose cells all hold the same integer v  *)
(* returns exactly v, for every origin the sweep visits, also for a block  *)
(* clipped at the bottom or right edge, and every step >= 1.               *)
C9_UniformBlockGivesItsValue ==
    (pc = "write" /\ img_array.bands = 1) =>
        LET v == img_array.data[<<i, j, 0>>]
        IN  (\A r \in 0 .. img_array.rows - 1, c \in 0 .. img_array.cols - 1 :
                InBlock(img_array, r, c, i, j) => img_array.data[<<r, c, 0>>] = v)
            => R(color) = v

\* the part of C9 that the code keeps: the same for a block that is not clipped
C9_FullUniformBlockGivesItsValue ==
    (pc = "write" /\ img_array.bands = 1
       /\ i + step <= img_array.rows /\ j + step <= img_array.cols) =>
        LET v == img_array.data[<<i, j, 0>>]
        IN  (\A r \in 0 .. img_array.rows - 1, c \in 0 .. img_array.cols - 1 :
                InBlock(img_array, r, c, i, j) => img_array.data[<<r, c, 0>>] = v)
            => R(color) = v

(* C10: for a grid with samples in 0..255 and 1, 3 or 4 bands, every value *)
(* generate writes is within 0..255.                                       *)
C10_WrittenValuesFitEightBits ==
    call = "generate" => (0 <= value /\ value <= R(MaxBrightness))

\* the part of C10 that the code keeps: the same for at most three bands
C10_UpToThreeBandsFit ==
    (call = "generate" /\ img_array.bands <= Channels) =>
        (0 <= value /\ value <= R(MaxBrightness))

====
